---- MODULE Spec2Model ----
(***************************************************************************)
(* Model of the Wordle environment of gym_wordle/envs/wordle_env.py:       *)
(* the module-level word bank (WORDS), the codec helpers encodeToStr and   *)
(* strToEncode, and the WordleEnv methods reset and step.                  *)
(*                                                                         *)
(* Python strings are sequences of character codes (ord values).  Python   *)
(* tuples / arrays of letters are TLA+ sequences (1-based), so the Python  *)
(* subscript x[idx] of a word is written x[idx + 1].  The numpy arrays     *)
(* board (6 x 5) and alphabet (26) are functions over the 0-based index    *)
(* ranges of the source.  Rewards 1.0 / 0.0 / -1.0 are the integers        *)
(* 1 / 0 / -1.                                                             *)
(***************************************************************************)
EXTENDS Integers, Sequences, FiniteSets

\* ------------------------------------------------------------------------
\* Program constants
\* ------------------------------------------------------------------------
GAME_LENGTH == 6

WORD_LENGTH == 5

\* Number of letters: spaces.MultiDiscrete([26] * WORD_LENGTH), Box(shape=(26,))
ALPHABET_SIZE == 26

\* ord('a')
ORD_A == 97

\* ------------------------------------------------------------------------
\* Bounds of the model
\* ------------------------------------------------------------------------
\* Number of lines of the word file that are loaded into the word bank.
NumWords == 3

\* ------------------------------------------------------------------------
\* The word file (data/5_words.txt), as f.readlines() returns it: one string
\* per line, each with its trailing newline (code 10).
\*   steel, every, abase, aback, sassy
\* ------------------------------------------------------------------------
WordFile ==
    << <<115, 116, 101, 101, 108, 10>>,
       <<101, 118, 101, 114, 121, 10>>,
       <<97, 98, 97, 115, 101, 10>>,
       <<97, 98, 97, 99, 107, 10>>,
       <<115, 97, 115, 115, 121, 10>> >>

readlines == SubSeq(WordFile, 1, NumWords)

Range(s) == { s[i] : i \in DOMAIN s }

\* Characters str.strip() removes: space, \t, \n, \v, \f, \r
Whitespace == {32, 9, 10, 11, 12, 13}

RECURSIVE lstrip(_)
lstrip(s) ==
    IF s # <<>> /\ Head(s) \in Whitespace THEN lstrip(Tail(s)) ELSE s

RECURSIVE rstrip(_)
rstrip(s) ==
    IF s # <<>> /\ s[Len(s)] \in Whitespace
    THEN rstrip(SubSeq(s, 1, Len(s) - 1))
    ELSE s

strip(s) == rstrip(lstrip(s))

\* Variant of encodeToStr: ord('A') in place of ord('a')
encodeToStr_upper(encoding) ==
    [ i \in 1..Len(encoding) |-> 65 + encoding[i] ]

\* encodeToStr: string += chr(ord('a') + enc) for each enc
encodeToStr(encoding) ==
    [ i \in 1..Len(encoding) |-> ORD_A + encoding[i] ]

\* One line of strToEncode: tuple(ord(char) - 97 for char in line.strip())
encodeLine(line) ==
    [ i \in 1..Len(strip(line)) |-> strip(line)[i] - 97 ]

\* strToEncode: the list of the encodings of the lines (the assert on the
\* length of each stripped line holds for every line of WordFile).
strToEncode(lines) ==
    [ n \in 1..Len(lines) |-> encodeLine(lines[n]) ]

\* WORDS = strToEncode(f.readlines())
WORDS == strToEncode(readlines)

\* ------------------------------------------------------------------------
\* Inputs of step: the words of the bank, two well-formed words that are not
\* in the bank ("zzzzz", "hello"), and two actions that are not well-formed
\* (a short one, and one with a component outside 0..25).
\* ------------------------------------------------------------------------
OtherWords == { <<25, 25, 25, 25, 25>>, <<7, 4, 11, 11, 14>> }

MalformedActions == { <<0, 1, 0, 2>>, <<0, 1, 0, 2, 26>> }

Actions == Range(WORDS) \cup OtherWords \cup MalformedActions

\* ------------------------------------------------------------------------
\* State
\* ------------------------------------------------------------------------
VARIABLES
    has_attrs,    \* TRUE once reset() has created hidden_word, guesses_left,
                  \* board and alphabet on the instance (__init__ only sets
                  \* guesses); before that the four hold placeholders
    hidden_word,  \* self.hidden_word
    guesses_left, \* self.guesses_left
    board,        \* self.board
    alphabet,     \* self.alphabet
    guesses,      \* self.guesses
    ret,          \* the last call and what it returned or raised
    held,         \* the observation the caller holds (obs of random_guess.py)
    drv,          \* the driver loop of random_guess.py: position and done
    codec         \* an application of the codec helpers: input and result

vars == <<has_attrs, hidden_word, guesses_left, board, alphabet, guesses, ret,
          held, drv, codec>>

session == <<guesses_left, board, alphabet, guesses>>

Rows == 0..(GAME_LENGTH - 1)

Cols == 0..(WORD_LENGTH - 1)

Letters == 0..(ALPHABET_SIZE - 1)

\* Variant of EmptyBoard: np.zeros in place of the negated np.ones
EmptyBoard_zeros == [ r \in Rows |-> [ c \in Cols |-> 0 ] ]

\* np.negative(np.ones(shape=(GAME_LENGTH, WORD_LENGTH), dtype=int))
EmptyBoard == [ r \in Rows |-> [ c \in Cols |-> -1 ] ]

\* np.negative(np.ones(shape=(26,), dtype=int))
EmptyAlphabet == [ l \in Letters |-> -1 ]

\* What a call returned (kind "obs") or raised (kind = the exception).
Returned(op, action, reward, done) ==
    [ op |-> op, action |-> action, kind |-> "obs",
      reward |-> reward, done |-> done ]

Raised(op, action, exc) ==
    [ op |-> op, action |-> action, kind |-> exc,
      reward |-> 0, done |-> FALSE ]

\* The caller holds no observation yet.  An observation is the dict of
\* _get_obs: references to two arrays.  live = TRUE: the two arrays are
\* self.board and self.alphabet themselves, and their contents are those of
\* board and alphabet; live = FALSE: they are arrays the environment no
\* longer refers to, with the contents held.board and held.alphabet.
\* writes counts the assignments the caller has made into the arrays of an
\* observation.
NoHeld ==
    [ kept |-> FALSE, live |-> FALSE, writes |-> 0,
      board |-> EmptyBoard, alphabet |-> EmptyAlphabet ]

\* The driver loop is not running
NoDriver == [ pc |-> "off", done |-> FALSE ]

\* No codec application
NoCodec == [ kind |-> "none", input |-> <<>>, output |-> <<>>, applied |-> FALSE ]

\* State after WordleEnv.__init__
InitEnv ==
    /\ has_attrs = FALSE
    /\ hidden_word = <<>>
    /\ guesses_left = 0
    /\ board = EmptyBoard
    /\ alphabet = EmptyAlphabet
    /\ guesses = <<>>
    /\ ret = Raised("init", <<>>, "none")
    /\ held = NoHeld

Init ==
    /\ InitEnv
    /\ drv = NoDriver
    /\ codec = NoCodec

\* ------------------------------------------------------------------------
\* reset
\* ------------------------------------------------------------------------
\* self.board and self.alphabet are bound to new arrays: an observation that
\* referred to the old ones keeps them, with the contents they have now.
Detach(h) ==
    IF h.live
    THEN [h EXCEPT !.live = FALSE, !.board = board, !.alphabet = alphabet]
    ELSE h

\* Variant of reset: guesses_left is set to WORD_LENGTH
reset_wordLength ==
    /\ \E w \in Range(WORDS) : hidden_word' = w
    /\ guesses_left' = WORD_LENGTH
    /\ board' = EmptyBoard
    /\ alphabet' = EmptyAlphabet
    /\ guesses' = <<>>
    /\ has_attrs' = TRUE
    /\ ret' = Returned("reset", <<>>, 0, FALSE)
    /\ held' = Detach(held)

\* Variant of reset: the board is not cleared
reset_keepBoard ==
    /\ \E w \in Range(WORDS) : hidden_word' = w
    /\ guesses_left' = GAME_LENGTH
    /\ board' = board
    /\ alphabet' = EmptyAlphabet
    /\ guesses' = <<>>
    /\ has_attrs' = TRUE
    /\ ret' = Returned("reset", <<>>, 0, FALSE)
    /\ held' = Detach(held)

reset ==
    /\ \E w \in Range(WORDS) : hidden_word' = w      \* random.choice(WORDS)
    /\ guesses_left' = GAME_LENGTH
    /\ board' = EmptyBoard
    /\ alphabet' = EmptyAlphabet
    /\ guesses' = <<>>
    /\ has_attrs' = TRUE
    /\ ret' = Returned("reset", <<>>, 0, FALSE)
    /\ held' = Detach(held)

\* ------------------------------------------------------------------------
\* step
\* ------------------------------------------------------------------------
\* Variant of action_space_contains: only the shape is tested
action_space_contains_shapeOnly(action) == Len(action) = WORD_LENGTH

\* self.action_space.contains(action), action_space = MultiDiscrete([26]*5)
action_space_contains(action) ==
    /\ Len(action) = WORD_LENGTH
    /\ \A i \in 1..Len(action) : action[i] \in Letters

\* Variant of InWords: the membership test is dropped
InWords_always(action) == TRUE

\* tuple(action) in WORDS
InWords(action) == action \in Range(WORDS)

\* Variant of board_row_idx: the row index wraps around at GAME_LENGTH
board_row_idx_wrap(gl) == (GAME_LENGTH - gl) % GAME_LENGTH

\* Variant of board_row_idx: off by one
board_row_idx_offByOne(gl) == GAME_LENGTH - gl - 1

\* board_row_idx = GAME_LENGTH - self.guesses_left
board_row_idx(gl) == GAME_LENGTH - gl

\* Variant of encoding: the membership branch is tested before the
\* position branch
encoding_memberFirst(hidden, idx, char) ==
    IF char \in Range(hidden) THEN 1
    ELSE IF hidden[idx + 1] = char THEN 2
    ELSE 0

\* The if / elif / else of the loop body: the colour of one slot
encoding(hidden, idx, char) ==
    IF hidden[idx + 1] = char THEN 2
    ELSE IF char \in Range(hidden) THEN 1
    ELSE 0

\* numpy subscript on axis 0 of board: valid for -GAME_LENGTH <= row < GAME_LENGTH,
\* a negative row counts from the end; anything else raises IndexError
RowInBounds(row) == row >= -GAME_LENGTH /\ row < GAME_LENGTH

RowIndex(row) == IF row < 0 THEN row + GAME_LENGTH ELSE row

\* Variant of LoopBody: the alphabet is subscripted by idx in place of char
LoopBody_alphabetByIdx(st, hidden, row, idx, char) ==
    IF st.err # "none" THEN st
    ELSE IF ~RowInBounds(row) THEN [st EXCEPT !.err = "IndexError"]
    ELSE [st EXCEPT !.board[RowIndex(row)][idx] = encoding(hidden, idx, char),
                    !.alphabet[idx] = encoding(hidden, idx, char)]

\* Variant of LoopBody: the alphabet entry keeps the best status seen so far
LoopBody_keepBest(st, hidden, row, idx, char) ==
    IF st.err # "none" THEN st
    ELSE IF ~RowInBounds(row) THEN [st EXCEPT !.err = "IndexError"]
    ELSE [st EXCEPT !.board[RowIndex(row)][idx] = encoding(hidden, idx, char),
                    !.alphabet[char] =
                        IF encoding(hidden, idx, char) > st.alphabet[char]
                        THEN encoding(hidden, idx, char)
                        ELSE st.alphabet[char]]

\* Variant of LoopBody: the two assignments are swapped, the alphabet entry
\* is written before the board cell
LoopBody_alphabetFirst(st, hidden, row, idx, char) ==
    IF st.err # "none" THEN st
    ELSE IF ~RowInBounds(row)
         THEN [st EXCEPT !.alphabet[char] = encoding(hidden, idx, char),
                         !.err = "IndexError"]
    ELSE [st EXCEPT !.board[RowIndex(row)][idx] = encoding(hidden, idx, char),
                    !.alphabet[char] = encoding(hidden, idx, char)]

\* One iteration of the for loop.  st = [board, alphabet, err]; an iteration
\* that runs after an exception does nothing (the loop was left).
LoopBody(st, hidden, row, idx, char) ==
    IF st.err # "none" THEN st
    ELSE IF ~RowInBounds(row) THEN [st EXCEPT !.err = "IndexError"]
    ELSE [st EXCEPT !.board[RowIndex(row)][idx] = encoding(hidden, idx, char),
                    !.alphabet[char] = encoding(hidden, idx, char)]

\* for idx, char in enumerate(action), from iteration idx on
RECURSIVE ForLoop(_, _, _, _, _)
ForLoop(st, hidden, row, action, idx) ==
    IF idx >= Len(action) THEN st
    ELSE ForLoop(LoopBody(st, hidden, row, idx, action[idx + 1]),
                 hidden, row, action, idx + 1)

\* Variant of RowAllGreen: any() in place of all()
RowAllGreen_any(b, row) == \E c \in Cols : b[RowIndex(row)][c] = 2

\* all(self.board[board_row_idx, :] == 2)
RowAllGreen(b, row) == \A c \in Cols : b[RowIndex(row)][c] = 2

\* Variant of Outcome: the remaining guesses are tested before the row
Outcome_turnsFirst(b, row, gl) ==
    IF gl > 0
    THEN IF RowAllGreen(b, row) THEN [reward |-> 1, done |-> TRUE]
         ELSE [reward |-> 0, done |-> FALSE]
    ELSE [reward |-> -1, done |-> TRUE]

\* Variant of Outcome: gl >= 0 in place of gl > 0
Outcome_geZero(b, row, gl) ==
    IF RowAllGreen(b, row) THEN [reward |-> 1, done |-> TRUE]
    ELSE IF gl >= 0 THEN [reward |-> 0, done |-> FALSE]
    ELSE [reward |-> -1, done |-> TRUE]

\* "check to see if game is over": the reward and done of an accepted step
Outcome(b, row, gl) ==
    IF RowAllGreen(b, row) THEN [reward |-> 1, done |-> TRUE]
    ELSE IF gl > 0 THEN [reward |-> 0, done |-> FALSE]
    ELSE [reward |-> -1, done |-> TRUE]

\* step assigns into the arrays self.board and self.alphabet in place and
\* binds no new array: which arrays an observation refers to is unchanged.
step(action) ==
    /\ UNCHANGED held
    /\ IF ~action_space_contains(action) THEN
           /\ ret' = Raised("step", action, "AssertionError")
           /\ UNCHANGED <<has_attrs, hidden_word, guesses_left, board, alphabet, guesses>>
       ELSE IF ~InWords(action) THEN
           /\ ret' = Raised("step", action, "InvalidWordException")
           /\ UNCHANGED <<has_attrs, hidden_word, guesses_left, board, alphabet, guesses>>
       ELSE IF ~has_attrs THEN
           \* self.guesses_left does not exist before the first reset()
           /\ ret' = Raised("step", action, "AttributeError")
           /\ UNCHANGED <<has_attrs, hidden_word, guesses_left, board, alphabet, guesses>>
       ELSE
           LET row == board_row_idx(guesses_left)
               st  == ForLoop([board |-> board, alphabet |-> alphabet, err |-> "none"],
                              hidden_word, row, action, 0)
           IN  /\ board' = st.board
               /\ alphabet' = st.alphabet
               /\ UNCHANGED <<has_attrs, hidden_word>>
               /\ IF st.err # "none" THEN
                     /\ ret' = Raised("step", action, st.err)
                     /\ UNCHANGED <<guesses_left, guesses>>
                  ELSE
                     /\ guesses_left' = guesses_left - 1
                     /\ guesses' = Append(guesses, action)
                     /\ ret' = Returned("step", action,
                                        Outcome(st.board, row, guesses_left - 1).reward,
                                        Outcome(st.board, row, guesses_left - 1).done)

Next ==
    \/ reset /\ UNCHANGED <<drv, codec>>
    \/ \E action \in Actions : step(action) /\ UNCHANGED <<drv, codec>>

Spec == Init /\ [][Next]_vars

\* ------------------------------------------------------------------------
\* The codec helpers applied to inputs of their own
\* ------------------------------------------------------------------------
\* Number of letters the inputs of the codec are built from
NumCodecLetters == 3

\* a, z, e, s, l
CodecLetterPool == <<0, 25, 4, 18, 11>>

CodecLetters == { CodecLetterPool[i] : i \in 1..NumCodecLetters }

\* Words: WORD_LENGTH components in 0..25
CodecWords == [ 1..WORD_LENGTH -> CodecLetters ]

\* Lowercase strings of WORD_LENGTH characters
CodecStrings == [ 1..WORD_LENGTH -> { ORD_A + l : l \in CodecLetters } ]

envvars == <<has_attrs, hidden_word, guesses_left, board, alphabet, guesses,
             ret, held>>

InitCodec ==
    /\ InitEnv
    /\ drv = NoDriver
    /\ codec \in
         { [ kind |-> "word", input |-> w, output |-> <<>>, applied |-> FALSE ] :
               w \in CodecWords }
         \cup
         { [ kind |-> "str", input |-> str, output |-> <<>>, applied |-> FALSE ] :
               str \in CodecStrings }

\* strToEncode([encodeToStr(w)])[0]
decode_encode ==
    /\ codec.kind = "word"
    /\ ~codec.applied
    /\ codec' = [codec EXCEPT
                    !.output = strToEncode(<<encodeToStr(codec.input)>>)[1],
                    !.applied = TRUE]
    /\ UNCHANGED <<envvars, drv>>

\* encodeToStr(strToEncode([s])[0])
encode_decode ==
    /\ codec.kind = "str"
    /\ ~codec.applied
    /\ codec' = [codec EXCEPT
                    !.output = encodeToStr(strToEncode(<<codec.input>>)[1]),
                    !.applied = TRUE]
    /\ UNCHANGED <<envvars, drv>>

NextCodec ==
    \/ decode_encode
    \/ encode_decode

SpecCodec == InitCodec /\ [][NextCodec]_vars

\* ------------------------------------------------------------------------
\* The caller and the observation it holds
\* ------------------------------------------------------------------------
\* Number of writes the caller makes into an observation it holds
MaxObsWrites == 1

\* _get_obs: {'board': self.board, 'alphabet': self.alphabet}, the two arrays
\* themselves and no copies of them
get_obs ==
    [ live |-> TRUE, board |-> board, alphabet |-> alphabet ]

\* The contents the caller reads in the observation it holds
HeldBoard == IF held.live THEN board ELSE held.board

HeldAlphabet == IF held.live THEN alphabet ELSE held.alphabet

\* The calls the caller of this part makes: a word of the bank and a word
\* outside it
ObsActions == { WORDS[1], <<25, 25, 25, 25, 25>> }

\* obs = env.reset() / obs, reward, done, _ = env.step(act): the caller keeps
\* the observation the last call returned
keep_obs ==
    /\ ret.kind = "obs"
    /\ held' = [ kept |-> TRUE, live |-> get_obs.live, writes |-> held.writes,
                 board |-> get_obs.board, alphabet |-> get_obs.alphabet ]
    /\ UNCHANGED <<has_attrs, hidden_word, guesses_left, board, alphabet,
                   guesses, ret, drv, codec>>

\* obs['board'][5][4] = 2: an assignment into the array the observation
\* refers to, which is self.board while the observation is live
obs_write_board ==
    /\ held.kept
    /\ held.writes < MaxObsWrites
    /\ IF held.live
       THEN /\ board' = [board EXCEPT ![5][4] = 2]
            /\ held' = [held EXCEPT !.writes = @ + 1]
       ELSE /\ held' = [held EXCEPT !.board[5][4] = 2, !.writes = @ + 1]
            /\ UNCHANGED board
    /\ UNCHANGED <<has_attrs, hidden_word, guesses_left, alphabet, guesses,
                   ret, drv, codec>>

\* obs['alphabet'][25] = 2
obs_write_alphabet ==
    /\ held.kept
    /\ held.writes < MaxObsWrites
    /\ IF held.live
       THEN /\ alphabet' = [alphabet EXCEPT ![25] = 2]
            /\ held' = [held EXCEPT !.writes = @ + 1]
       ELSE /\ held' = [held EXCEPT !.alphabet[25] = 2, !.writes = @ + 1]
            /\ UNCHANGED alphabet
    /\ UNCHANGED <<has_attrs, hidden_word, guesses_left, board, guesses,
                   ret, drv, codec>>

NextObs ==
    \/ reset /\ UNCHANGED <<drv, codec>>
    \/ \E action \in ObsActions : step(action) /\ UNCHANGED <<drv, codec>>
    \/ keep_obs
    \/ obs_write_board
    \/ obs_write_alphabet

SpecObs == Init /\ [][NextObs]_vars

\* ------------------------------------------------------------------------
\* The driver loop of random_guess.py
\*   drv.pc: "start"  before obs = env.reset()
\*           "sample" at the try block: sample an action and call step
\*           "render" at env.render()
\*           "exit"   after the outer while loop
\*           "crashed" left by an exception the loop does not catch
\* ------------------------------------------------------------------------
\* env.action_space.sample(): a well-formed word, in the bank or not
SampleSpace == Range(WORDS) \cup OtherWords

InitDriver ==
    /\ InitEnv
    /\ codec = NoCodec
    /\ drv = [ pc |-> "start", done |-> FALSE ]

\* obs = env.reset(); done = False
drv_reset ==
    /\ drv.pc = "start"
    /\ reset
    /\ drv' = [ pc |-> "sample", done |-> FALSE ]
    /\ UNCHANGED codec

\* Variant of LoopAgain: while True
LoopAgain_always(done) == TRUE

\* while not done
LoopAgain(done) == ~done

\* act = env.action_space.sample(); obs, reward, done, _ = env.step(act);
\* break -- or, on InvalidWordException, pass and try again
drv_step(act) ==
    /\ drv.pc = "sample"
    /\ step(act)
    /\ drv' = IF ret'.kind = "obs"
              THEN [ pc |-> "render", done |-> ret'.done ]
              ELSE IF ret'.kind = "InvalidWordException"
              THEN drv
              ELSE [ pc |-> "crashed", done |-> drv.done ]
    /\ UNCHANGED codec

\* env.render() (it reads guesses, board and alphabet and prints), then the
\* test of the outer while
drv_render ==
    /\ drv.pc = "render"
    /\ drv' = [ pc |-> IF LoopAgain(drv.done) THEN "sample" ELSE "exit",
                done |-> drv.done ]
    /\ UNCHANGED <<envvars, codec>>

\* A sample that is a word of the bank
drv_step_bank == \E act \in Range(WORDS) : drv_step(act)

\* A sample that is not a word of the bank
drv_step_other == \E act \in SampleSpace \ Range(WORDS) : drv_step(act)

NextDriver ==
    \/ drv_reset
    \/ drv_step_bank
    \/ drv_step_other
    \/ drv_render

\* The statements of the script are executed one after the other, and the
\* sampling produces a word of the bank again and again.
FairDriver ==
    /\ WF_vars(drv_reset)
    /\ WF_vars(drv_render)
    /\ WF_vars(drv_step_bank)

SpecDriver == InitDriver /\ [][NextDriver]_vars /\ FairDriver

\* ========================================================================
\* Properties
\* ========================================================================
\* The last call was a step that was accepted (it returned an observation).
Accepted == ret.op = "step" /\ ret.kind = "obs"

\* The row the last accepted step wrote
LastRow == Len(guesses) - 1

\* C1: after reset(), a step whose action is a well-formed word (5 components
\* in 0..25) that is not in the word bank raises InvalidWordException and
\* leaves guesses_left, board, alphabet and guesses as they were: the turn is
\* not consumed.
C1_InvalidWordKeepsState ==
    [][ ( /\ has_attrs
          /\ ret'.op = "step"
          /\ Len(ret'.action) = WORD_LENGTH
          /\ \A i \in 1..Len(ret'.action) : ret'.action[i] \in 0..25
          /\ \A n \in 1..Len(WORDS) : WORDS[n] # ret'.action )
        => ( /\ ret'.kind = "InvalidWordException"
             /\ guesses_left' = guesses_left
             /\ board' = board
             /\ alphabet' = alphabet
             /\ guesses' = guesses ) ]_vars

\* C1 witness: in the middle of an episode (a row is filled, turns remain) a
\* word outside the bank has just been rejected.
C1_Witness ==
    /\ has_attrs
    /\ ret.op = "step"
    /\ ret.kind = "InvalidWordException"
    /\ ret.action = <<7, 4, 11, 11, 14>>
    /\ Len(guesses) = 2
    /\ guesses_left = GAME_LENGTH - 2
    /\ board[1][0] # -1

\* C2: reset(), called in any state, produces a state in which every board
\* cell is -1, every one of the 26 alphabet entries is -1, guesses_left is
\* GAME_LENGTH, guesses is empty and hidden_word is a word of the bank.
C2_ResetState ==
    ret.op = "reset" =>
        /\ \A r \in 0..5 : \A c \in 0..4 : board[r][c] = -1
        /\ DOMAIN board = 0..5
        /\ \A l \in 0..25 : alphabet[l] = -1
        /\ DOMAIN alphabet = 0..25
        /\ guesses_left = GAME_LENGTH
        /\ guesses = <<>>
        /\ \E n \in 1..Len(WORDS) : WORDS[n] = hidden_word

\* C2 witness: reset() has just returned.
C2_Witness ==
    /\ ret.op = "reset"
    /\ ret.kind = "obs"
    /\ has_attrs
    /\ guesses_left = 6
    /\ hidden_word = <<4, 21, 4, 17, 24>>

\* C3: the status an accepted step writes at position i of its board row is
\* 2 iff g[i] = h[i]; 1 iff g[i] # h[i] and g[i] occurs somewhere in h; 0 iff
\* g[i] occurs nowhere in h (g the guess, h the hidden word).  It does not
\* depend on the other letters of g.
C3_FeedbackPerPosition ==
    Accepted =>
        \A i \in 0..4 :
            LET g == ret.action
                h == hidden_word
                inH == \E j \in 1..5 : h[j] = g[i + 1]
                cell == board[LastRow][i]
            IN  /\ cell \in {0, 1, 2}
                /\ (cell = 2) <=> (g[i + 1] = h[i + 1])
                /\ (cell = 1) <=> (g[i + 1] # h[i + 1] /\ inH)
                /\ (cell = 0) <=> ~inH

\* C3 witness: "steel" has been scored against "abase": both e of the guess
\* are marked 1 although the hidden word holds a single e.
C3_Witness ==
    /\ Accepted
    /\ hidden_word = <<0, 1, 0, 18, 4>>
    /\ ret.action = <<18, 19, 4, 4, 11>>
    /\ board[LastRow] = [c \in 0..4 |-> <<1, 0, 1, 1, 0>>[c + 1]]

\* C4: if the first k-1 accepted guesses differ from the hidden word and the
\* k-th equals it (1 <= k <= 6), the k-th step returns reward 1 and done, and
\* exactly the rows 0..k-1 of the board are non-UNKNOWN.
C4_WinOnTurnK ==
    ( /\ Accepted
      /\ ret.action = hidden_word
      /\ \A j \in 1..(Len(guesses) - 1) : guesses[j] # hidden_word )
    => ( /\ ret.reward = 1
         /\ ret.done = TRUE
         /\ Len(guesses) \in 1..6
         /\ \A r \in 0..5 : \A c \in 0..4 :
                (r < Len(guesses)) <=> (board[r][c] # -1) )

\* C4 witness: a win on the last turn, after five wrong guesses.
C4_Witness ==
    /\ Accepted
    /\ Len(guesses) = 6
    /\ guesses[6] = hidden_word
    /\ \A j \in 1..5 : guesses[j] # hidden_word
    /\ ret.reward = 1
    /\ guesses_left = 0

\* C5: while no accepted guess equals the hidden word, each of the first five
\* steps returns reward 0 and not done, and the sixth returns reward -1 and
\* done with guesses_left = 0.
C5_LossOnTurnSix ==
    ( /\ Accepted
      /\ \A j \in 1..Len(guesses) : guesses[j] # hidden_word )
    => IF Len(guesses) < 6
       THEN ret.reward = 0 /\ ret.done = FALSE
       ELSE ret.reward = -1 /\ ret.done = TRUE /\ guesses_left = 0

\* C5 witness: the sixth wrong guess has just been accepted.
C5_Witness ==
    /\ Accepted
    /\ Len(guesses) = 6
    /\ \A j \in 1..6 : guesses[j] # hidden_word
    /\ ret.reward = -1
    /\ ret.done = TRUE

\* C6: an accepted step returns reward 1 iff its action equals the hidden
\* word; the row it writes is all CORRECT_POSITION iff the action equals the
\* hidden word.
C6_RewardIffHidden ==
    Accepted =>
        /\ (ret.reward = 1) <=> (ret.action = hidden_word)
        /\ (\A c \in 0..4 : board[LastRow][c] = 2) <=> (ret.action = hidden_word)

\* C6 witness: a guess that matches the hidden word at one position only
\* ("steel" against "every") has been accepted without reward.
C6_Witness ==
    /\ Accepted
    /\ ret.action # hidden_word
    /\ \E c \in 0..4 : board[LastRow][c] = 2
    /\ ret.reward = 0
    /\ \A j \in 1..Len(guesses) : guesses[j] # hidden_word

C8_FilledRows ==
    has_attrs =>
        /\ GAME_LENGTH - guesses_left = Len(guesses)
        /\ \A r \in 0..5 :
              IF r < GAME_LENGTH - guesses_left
              THEN \A c \in 0..4 : board[r][c] \in {0, 1, 2}
              ELSE \A c \in 0..4 : board[r][c] = -1

\* C8 witness: three guesses accepted, three rows filled, three rows empty.
C8_Witness ==
    /\ has_attrs
    /\ guesses_left = 3
    /\ Len(guesses) = 3
    /\ \A c \in 0..4 : board[2][c] \in {0, 1, 2} /\ board[3][c] = -1

\* C9: right after a step returned reward 1 with done, a further step with a
\* word of the bank fails with an error and leaves board, alphabet,
\* guesses_left and guesses unchanged.
C9_StepAfterWonFails ==
    [][ ( /\ ret.op = "step" /\ ret.kind = "obs"
          /\ ret.reward = 1 /\ ret.done = TRUE
          /\ ret'.op = "step"
          /\ \E n \in 1..Len(WORDS) : WORDS[n] = ret'.action )
        => ( /\ ret'.kind \notin {"obs", "none"}
             /\ board' = board
             /\ alphabet' = alphabet
             /\ guesses_left' = guesses_left
             /\ guesses' = guesses ) ]_vars

\* C10: once six guesses have been accepted, none of them the hidden word, a
\* further step with a word of the bank fails with an error and leaves
\* board, alphabet, guesses_left and guesses unchanged.
C10_StepAfterLostFails ==
    [][ ( /\ has_attrs
          /\ guesses_left = 0
          /\ Len(guesses) = 6
          /\ \A j \in 1..6 : guesses[j] # hidden_word
          /\ ret'.op = "step"
          /\ \E n \in 1..Len(WORDS) : WORDS[n] = ret'.action )
        => ( /\ ret'.kind \notin {"obs", "none"}
             /\ board' = board
             /\ alphabet' = alphabet
             /\ guesses_left' = guesses_left
             /\ guesses' = guesses ) ]_vars

\* C10 witness: after a lost episode a step with the word of the bank
\* "steel" has raised IndexError.
C10_Witness ==
    /\ has_attrs
    /\ guesses_left = 0
    /\ Len(guesses) = 6
    /\ \A j \in 1..6 : guesses[j] # hidden_word
    /\ ret.op = "step"
    /\ ret.action = <<18, 19, 4, 4, 11>>
    /\ ret.kind = "IndexError"

\* C12: a step whose action is not a well-formed word (length other than
\* WORD_LENGTH, or a component outside 0..25) fails before the word-bank
\* test (the error is not InvalidWordException) and before any mutation:
\* board, alphabet, guesses_left and guesses are unchanged, and so are the
\* hidden word and the existence of the episode, so that the session is as
\* usable afterwards as it was before.
C12_MalformedActionKeepsState ==
    [][ ( /\ ret'.op = "step"
          /\ \/ Len(ret'.action) # 5
             \/ \E i \in 1..Len(ret'.action) : ret'.action[i] \notin 0..25 )
        => ( /\ ret'.kind = "AssertionError"
             /\ board' = board
             /\ alphabet' = alphabet
             /\ guesses_left' = guesses_left
             /\ guesses' = guesses
             /\ hidden_word' = hidden_word
             /\ has_attrs' = has_attrs ) ]_vars

\* C12 witness: in the middle of an episode an action with the component 26
\* has just been refused; turns remain for a following step.
C12_Witness ==
    /\ has_attrs
    /\ ret.op = "step"
    /\ ret.action = <<0, 1, 0, 2, 26>>
    /\ ret.kind = "AssertionError"
    /\ Len(guesses) = 1
    /\ guesses_left = 5

\* C13: throughout an episode alphabet[l] is the maximum status observed for
\* the letter l over all positions of all accepted guesses of the episode
\* (-1 < 0 < 1 < 2), and -1 when no accepted guess holds l; so no accepted
\* step lowers an alphabet entry.
C13_AlphabetBestSoFar ==
    has_attrs =>
        \A l \in 0..25 :
            LET seen == { IF guesses[j][p] = hidden_word[p] THEN 2
                          ELSE IF \E q \in 1..5 : hidden_word[q] = guesses[j][p] THEN 1
                          ELSE 0 :
                          <<j, p>> \in { x \in (1..Len(guesses)) \X (1..5) :
                                             guesses[x[1]][x[2]] = l } }
            IN  IF seen = {} THEN alphabet[l] = -1
                ELSE alphabet[l] \in seen /\ \A v \in seen : v <= alphabet[l]

\* C15: a board row is write-once within an episode.  No step call, accepted
\* or rejected, changes a row that holds a status; an accepted step writes
\* exactly one row, the lowest-indexed row that was all -1, and leaves every
\* other row unchanged.
C15_RowsWriteOnce ==
    [][ ( has_attrs /\ ret'.op = "step" )
        => /\ \A r \in 0..5 :
                 (\E c \in 0..4 : board[r][c] # -1) => board'[r] = board[r]
           /\ ret'.kind = "obs" =>
                 \E r \in 0..5 :
                    /\ \A c \in 0..4 : board[r][c] = -1
                    /\ \A r2 \in 0..(r - 1) : \E c \in 0..4 : board[r2][c] # -1
                    /\ \A c \in 0..4 : board'[r][c] \in {0, 1, 2}
                    /\ \A r2 \in 0..5 : r2 # r => board'[r2] = board[r2]
           /\ ret'.kind # "obs" => board' = board ]_vars

\* C15 witness: the hidden word was guessed on the second turn and two more
\* steps were accepted after that terminal step; four rows are filled.
C15_Witness ==
    /\ Accepted
    /\ Len(guesses) = 4
    /\ guesses[2] = hidden_word
    /\ guesses[1] # hidden_word
    /\ \A c \in 0..4 : board[1][c] = 2 /\ board[3][c] # -1 /\ board[4][c] = -1

\* C17: whenever the episode attributes exist, 0 <= guesses_left <=
\* GAME_LENGTH and guesses_left = GAME_LENGTH - Len(guesses); an accepted
\* step decrements guesses_left by exactly 1 and appends exactly its action
\* to guesses; a step that raises changes neither.
C17_TurnsAndHistory ==
    /\ [](has_attrs => /\ guesses_left >= 0
                       /\ guesses_left <= 6
                       /\ guesses_left = 6 - Len(guesses))
    /\ [][ ( has_attrs /\ ret'.op = "step" )
           => IF ret'.kind = "obs"
              THEN /\ guesses_left' = guesses_left - 1
                   /\ Len(guesses') = Len(guesses) + 1
                   /\ guesses'[Len(guesses')] = ret'.action
                   /\ \A j \in 1..Len(guesses) : guesses'[j] = guesses[j]
              ELSE guesses_left' = guesses_left /\ guesses' = guesses ]_vars

\* C17 witness: a step attempted after the sixth accepted guess has raised;
\* guesses_left is still 0 and the history still holds six guesses.
C17_Witness ==
    /\ has_attrs
    /\ ret.op = "step"
    /\ ret.kind = "IndexError"
    /\ guesses_left = 0
    /\ Len(guesses) = 6

\* C18: the board and the guess history agree.  For every recorded guess i,
\* board row i is the per-position feedback of that guess against the
\* current hidden word, and the number of rows that hold a status is the
\* number of recorded guesses.
C18_BoardMatchesHistory ==
    has_attrs =>
        /\ \A i \in 1..Len(guesses) : \A c \in 0..4 :
              board[i - 1][c] =
                  IF guesses[i][c + 1] = hidden_word[c + 1] THEN 2
                  ELSE IF \E q \in 1..5 : hidden_word[q] = guesses[i][c + 1] THEN 1
                  ELSE 0
        /\ Cardinality({ r \in 0..5 : \E c \in 0..4 : board[r][c] # -1 })
              = Len(guesses)

\* C18 witness: hidden word "abase"; "steel" was accepted three times, then
\* a word outside the bank was rejected: three rows hold the feedback of
\* "steel" against "abase".
C18_Witness ==
    /\ has_attrs
    /\ hidden_word = <<0, 1, 0, 18, 4>>
    /\ Len(guesses) = 3
    /\ \A i \in 1..3 : guesses[i] = <<18, 19, 4, 4, 11>>
    /\ board[2][0] = 1
    /\ ret.kind = "InvalidWordException"

\* C19: after reset(), alphabet[l] = -1 iff the letter l occurs in no
\* accepted guess of the episode; alphabet[l] = 0 iff l occurs in an accepted
\* guess and not in the hidden word; alphabet[l] is 1 or 2 iff l occurs in an
\* accepted guess and in the hidden word.
C19_AlphabetSound ==
    has_attrs =>
        \A l \in 0..25 :
            LET guessed == \E j \in 1..Len(guesses) : \E p \in 1..5 : guesses[j][p] = l
                inHidden == \E q \in 1..5 : hidden_word[q] = l
            IN  /\ (alphabet[l] = -1) <=> ~guessed
                /\ (alphabet[l] = 0) <=> (guessed /\ ~inHidden)
                /\ (alphabet[l] \in {1, 2}) <=> (guessed /\ inHidden)

\* C19 witness: hidden word "steel", guesses "every" and "abase": y is
\* absent (0), s is present (1), e is present although its last status is 1
\* after a 2, and z was never guessed (-1).
C19_Witness ==
    /\ has_attrs
    /\ hidden_word = <<18, 19, 4, 4, 11>>
    /\ guesses = << <<4, 21, 4, 17, 24>>, <<0, 1, 0, 18, 4>> >>
    /\ alphabet[24] = 0
    /\ alphabet[18] = 1
    /\ alphabet[4] = 1
    /\ alphabet[25] = -1

\* C14: the codec round-trips.  For every word w of WORD_LENGTH components in
\* 0..25, encoding the string encodeToStr(w) gives w; for every lowercase
\* string s of WORD_LENGTH characters, encodeToStr of the encoding of s
\* gives s.
C14_CodecRoundTrip ==
    codec.applied =>
        /\ Len(codec.output) = 5
        /\ \A i \in 1..5 : codec.output[i] = codec.input[i]
        /\ codec.kind = "word" => \A i \in 1..5 : codec.output[i] \in 0..25
        /\ codec.kind = "str" => \A i \in 1..5 : codec.output[i] \in 97..122

\* C14 witness: the word "zaeez" has been decoded and encoded again.
C14_Witness ==
    /\ codec.applied
    /\ codec.kind = "word"
    /\ codec.input = <<25, 0, 4, 4, 25>>
    /\ codec.output = <<25, 0, 4, 4, 25>>

\* C11: the observation returned by reset() or step() is a snapshot.  The
\* contents the caller reads in an observation it holds are not changed by a
\* later step, and an assignment of the caller into that observation does
\* not change the board or the alphabet of the environment.
C11_ObservationIsSnapshot ==
    /\ [][ ( held.kept /\ held' = held /\ ret'.op = "step" )
           => ( HeldBoard' = HeldBoard /\ HeldAlphabet' = HeldAlphabet ) ]_vars
    /\ [][ ( held'.writes = held.writes + 1 )
           => ( board' = board /\ alphabet' = alphabet ) ]_vars

\* C16: the driver loop terminates, after at most GAME_LENGTH accepted
\* steps, provided a word of the bank is sampled again and again; a rejected
\* sample consumes no turn; after a step has returned done = TRUE the loop
\* makes no further step call, and it leaves the loop only then.
C16_DriverTerminates ==
    /\ <>(drv.pc = "exit")
    /\ [](Len(guesses) <= 6)
    /\ [](drv.pc = "exit" => (ret.op = "step" /\ ret.kind = "obs" /\ ret.done))
    /\ [][ ret'.kind = "InvalidWordException"
           => (guesses_left' = guesses_left /\ guesses' = guesses) ]_vars
    /\ [][ (ret.op = "step" /\ ret.kind = "obs" /\ ret.done)
           => (ret' = ret /\ guesses' = guesses /\ board' = board) ]_vars

\* C16 witness: the loop has ended after six accepted guesses, none of them
\* the hidden word.
C16_Witness ==
    /\ drv.pc = "exit"
    /\ drv.done
    /\ Len(guesses) = 6
    /\ guesses_left = 0
    /\ ret.reward = -1

====
